---------------------------- MODULE Spec2Model ----------------------------
(***************************************************************************)
(* Model of the Ecowitt live-data parser for the RainMachine controller    *)
(* (src/ecowitt-parser.py, Python 2): the tag/payload record walk over a   *)
(* live-data packet, the daily accumulator `observations`, its rollover,   *)
(* its reports to the RainMachine sink and its JSON state file.            *)
(*                                                                         *)
(* Numbers.  The code works on floats obtained from integers by a fixed    *)
(* division; the model keeps the integer and states the unit:              *)
(*   TEMPERATURE, MAXTEMP, MINTEMP, WIND, RAIN  tenths (value * 10)        *)
(*   PRESSURE                                   hundredths (value * 100)   *)
(*   SOLARRADIATION                             1e-9 (raw * 79 * 36)       *)
(*   RH, MAXRH, MINRH, observations             plain Python ints          *)
(* A reported value is the pair num/den of the division the code makes.    *)
(* Bytes are integers 0..255, a packet is a sequence of bytes, and a       *)
(* Python index i is the element i + 1 of the sequence.                    *)
(***************************************************************************)
EXTENDS Integers, Sequences, FiniteSets, Bags, TLC

(***************************************************************************)
(* Bounds of the model.                                                    *)
(***************************************************************************)
\* poll cycles (calls of perform) of one run
MaxCycles == 2
\* clock ticks in one calendar day
TicksPerDay == 2
\* injected faults (socket errors, IOErrors, damaged or removed state file)
MaxFaults == 1
\* records in a body of the walk specification
MaxRecords == 2

(***************************************************************************)
(* Program constants.                                                      *)
(***************************************************************************)
OBSERVATION_COUNTER == "observations"
TEMPERATURE == "TEMPERATURE"
MAXTEMP == "MAXTEMP"
MINTEMP == "MINTEMP"
RH == "RH"
MAXRH == "MAXRH"
MINRH == "MINRH"
WIND == "WIND"
SOLARRADIATION == "SOLARRADIATION"
RAIN == "RAIN"
PRESSURE == "PRESSURE"
TIMESTAMP == "TIMESTAMP"

\* degC, the class attribute's MAXTEMP and MINTEMP
DefaultMaxTemp == -100
DefaultMinTemp == 100
\* percent, the class attribute's MAXRH and MINRH
DefaultMaxRH == 0
DefaultMinRH == 100
\* read_int(...) / 10.0: the model's tenths per unit
TenthsPerUnit == 10
\* packet[5: len(packet) - 1]
HeaderSize == 5
\* payload size of a tag the switcher does not hold
UnknownSize == 1
\* for n in range(5)
DiscoverRetries == 5

(***************************************************************************)
(* Python helpers.                                                         *)
(***************************************************************************)
Min(a, b) == IF a < b THEN a ELSE b

Max(a, b) == IF a > b THEN a ELSE b

\* seq[a:b] of Python: the bounds are clamped, a negative bound counts from the end
PySlice(seq, a, b) ==
    LET n  == Len(seq)
        lo == IF a < 0 THEN Max(a + n, 0) ELSE Min(a, n)
        hi == IF b < 0 THEN Max(b + n, 0) ELSE Min(b, n)
    IN  IF lo >= hi THEN << >> ELSE SubSeq(seq, lo + 1, hi)

RECURSIVE BigEndian(_)
\* the big-endian value of a string of digits to the base 256
BigEndian(bytes) ==
    IF bytes = << >> THEN 0
    ELSE BigEndian(SubSeq(bytes, 1, Len(bytes) - 1)) * 256 + bytes[Len(bytes)]

\* struct.unpack raises struct.error unless the string has exactly the format's size
UnpackRaises(data, size) == Len(PySlice(data, 0, size)) # size

\* read_int(data, unsigned, size) for size 1, 2, 4 on a string it can unpack
read_int(data, unsigned, size) ==
    LET bytes == PySlice(data, 0, size)
    IN  IF unsigned \/ bytes[1] < 128 THEN BigEndian(bytes)
        ELSE BigEndian(<<bytes[1] - 256>> \o Tail(bytes))

(***************************************************************************)
(* The sensor registry: the dictionary `switcher` of _read_sensor.         *)
(***************************************************************************)
IgnoredSize1 == {6, 23, 34, 35, 36, 37, 38, 39, 40, 41, 44, 46, 48, 50, 52, 54, 56,
                 58, 60, 62, 64, 66, 68, 70, 72, 74, 88, 89, 90, 91, 96}

IgnoredSize2 == {1, 3, 4, 5, 8, 10, 12, 13, 14, 15, 17, 22, 25, 26, 27, 28, 29, 30,
                 31, 32, 33, 42, 43, 45, 47, 49, 51, 53, 55, 57, 59, 61, 63, 65, 67,
                 69, 71, 73, 77, 78, 79, 80, 81, 82, 83}

IgnoredSize3 == {99, 100, 101, 102, 103, 104, 105, 106}

IgnoredSize4 == {18, 19, 20, 97, 98}

IgnoredSize6 == {24}

IgnoredSize16 == {76}

IgnoredTags == IgnoredSize1 \cup IgnoredSize2 \cup IgnoredSize3 \cup IgnoredSize4
                 \cup IgnoredSize6 \cup IgnoredSize16

\* tag -> handler of the value sensors
ValueReaders == (2 :> "_outdoor_temperature") @@ (7 :> "_outdoor_humidity")
                @@ (9 :> "_relative_barometric") @@ (11 :> "_wind_speed")
                @@ (16 :> "_rain_day") @@ (21 :> "_light")

ValueTags == DOMAIN ValueReaders

KnownTags == ValueTags \cup IgnoredTags

ValueSize(tag) == IF tag = 7 THEN 1 ELSE IF tag = 21 THEN 4 ELSE 2

IgnoredSize(tag) ==
    IF tag \in IgnoredSize1 THEN 1 ELSE IF tag \in IgnoredSize2 THEN 2
    ELSE IF tag \in IgnoredSize3 THEN 3 ELSE IF tag \in IgnoredSize4 THEN 4
    ELSE IF tag \in IgnoredSize6 THEN 6 ELSE 16

UnknownEntryShort(tag) == [reader |-> "_unknown_sensor", size |-> UnknownSize - 1]

UnknownEntryMutant(tag) == [reader |-> "_unknown_sensor", size |-> UnknownSize + 1]

\* the default of switcher.get
UnknownEntry(tag) == [reader |-> "_unknown_sensor", size |-> UnknownSize]

\* switcher.get(sensor_id, (self._unknown_sensor, 1))
switcher_get(tag) ==
    IF tag \in ValueTags THEN [reader |-> ValueReaders[tag], size |-> ValueSize(tag)]
    ELSE IF tag \in IgnoredTags THEN [reader |-> "_ignore_sensor", size |-> IgnoredSize(tag)]
    ELSE UnknownEntry(tag)


(***************************************************************************)
(* The accumulator: the class attribute ECOWITT.observations.              *)
(***************************************************************************)
DefaultObservations ==
    [observations   |-> 0,
     TEMPERATURE    |-> 0,
     MAXTEMP        |-> DefaultMaxTemp * TenthsPerUnit,
     MINTEMP        |-> DefaultMinTemp * TenthsPerUnit,
     RH             |-> 0,
     MAXRH          |-> DefaultMaxRH,
     MINRH          |-> DefaultMinRH,
     WIND           |-> 0,
     SOLARRADIATION |-> 0,
     RAIN           |-> 0,
     PRESSURE       |-> 0,
     TIMESTAMP      |-> 0]

(***************************************************************************)
(* The sensor handlers.  Each returns the accumulator it leaves; each      *)
(* value handler first unpacks data[index + 1: index + 1 + size].          *)
(***************************************************************************)
Payload(data, index, size) == PySlice(data, index + 1, index + 1 + size)

outdoor_temperature(obs, data, index, size) ==
    LET t  == read_int(Payload(data, index, size), FALSE, size)
        o1 == [obs EXCEPT ![TEMPERATURE] = @ + t]
        o2 == IF t > o1[MAXTEMP] THEN [o1 EXCEPT ![MAXTEMP] = t] ELSE o1
    IN  IF t < o2[MINTEMP] THEN [o2 EXCEPT ![MINTEMP] = t] ELSE o2

outdoor_humidity(obs, data, index, size) ==
    LET h  == read_int(Payload(data, index, size), FALSE, size)
        o1 == [obs EXCEPT ![RH] = @ + h]
        o2 == IF h > o1[MAXRH] THEN [o1 EXCEPT ![MAXRH] = h] ELSE o1
    IN  IF h < o2[MINRH] THEN [o2 EXCEPT ![MINRH] = h] ELSE o2

relative_barometric(obs, data, index, size) ==
    [obs EXCEPT ![PRESSURE] = @ + read_int(Payload(data, index, size), FALSE, size)]

wind_speed(obs, data, index, size) ==
    [obs EXCEPT ![WIND] = @ + read_int(Payload(data, index, size), FALSE, size)]

rain_day(obs, data, index, size) ==
    LET r == read_int(Payload(data, index, size), FALSE, size)
    IN  IF r > obs[RAIN] THEN [obs EXCEPT ![RAIN] = r] ELSE obs

\* light / 10.0 * 0.0079 * 0.0036, in units of 1e-9
light(obs, data, index, size) ==
    [obs EXCEPT ![SOLARRADIATION] =
                    @ + read_int(Payload(data, index, size), FALSE, size) * 79 * 36]

ignore_sensor(obs, data, index, size) == obs

unknown_sensor(obs, data, index, size) == obs

\* whether sensor_reader(data, index, size) raises (struct.error of read_int)
ReaderRaises(reader, data, index, size) ==
    /\ reader \notin {"_ignore_sensor", "_unknown_sensor"}
    /\ UnpackRaises(Payload(data, index, size), size)

\* sensor_reader(data, index, size)
Apply(reader, obs, data, index, size) ==
    CASE reader = "_outdoor_temperature" -> outdoor_temperature(obs, data, index, size)
      [] reader = "_outdoor_humidity"    -> outdoor_humidity(obs, data, index, size)
      [] reader = "_relative_barometric" -> relative_barometric(obs, data, index, size)
      [] reader = "_wind_speed"          -> wind_speed(obs, data, index, size)
      [] reader = "_rain_day"            -> rain_day(obs, data, index, size)
      [] reader = "_light"               -> light(obs, data, index, size)
      [] reader = "_ignore_sensor"       -> ignore_sensor(obs, data, index, size)
      [] OTHER                           -> unknown_sensor(obs, data, index, size)

NextIndexMutant(index, size) == index + size

\* the cursor _read_sensor returns
NextIndex(index, size) == index + 1 + size

(***************************************************************************)
(* _read_sensor(data, index) on the accumulator obs, for index < len(data):*)
(* the accumulator and cursor it leaves, whether it raised, and the call   *)
(* it made.                                                                *)
(***************************************************************************)
read_sensor(obs, data, index) ==
    LET sensor_id == data[index + 1]
        entry     == switcher_get(sensor_id)
        raises    == ReaderRaises(entry.reader, data, index, entry.size)
    IN  [obs    |-> IF raises THEN obs
                    ELSE Apply(entry.reader, obs, data, index, entry.size),
         index  |-> IF raises THEN index ELSE NextIndex(index, entry.size),
         raised |-> raises,
         call   |-> [reader |-> entry.reader, tag |-> sensor_id, index |-> index,
                     size |-> entry.size]]

\* data = packet[5: len(packet) - 1]
StripPacket(packet) == PySlice(packet, HeaderSize, Len(packet) - 1)

RECURSIVE WalkFrom(_, _, _, _)
\* the loop `while index < size: index = self._read_sensor(data, index)`
WalkFrom(obs, data, index, calls) ==
    IF index >= Len(data)
    THEN [obs |-> obs, index |-> index, raised |-> FALSE, calls |-> calls]
    ELSE LET r == read_sensor(obs, data, index)
         IN  IF r.raised
             THEN [obs |-> obs, index |-> index, raised |-> TRUE,
                   calls |-> Append(calls, r.call)]
             ELSE WalkFrom(r.obs, data, r.index, Append(calls, r.call))

\* _parse_live_data(packet) on the accumulator obs
parse_live_data(obs, packet) == WalkFrom(obs, StripPacket(packet), 0, << >>)

(***************************************************************************)
(* Time.  A timestamp is a number of clock ticks since the epoch, the      *)
(* local time zone is tz ticks ahead of UTC.                               *)
(***************************************************************************)
\* rmGetStartOfDay(ts): the epoch time of the local midnight before ts
rmGetStartOfDay(ts, tz) == ((ts + tz) \div TicksPerDay) * TicksPerDay - tz

\* rmGetStartOfDayUtc(ts): the epoch time of the UTC midnight before ts
rmGetStartOfDayUtc(ts) == (ts \div TicksPerDay) * TicksPerDay

(***************************************************************************)
(* The state file observations.json.  A JSON object is the set of its      *)
(* key/value pairs; kind is "missing", "json" or "garbage" (a file that    *)
(* json.load cannot parse).                                                *)
(***************************************************************************)
NoFile == [kind |-> "missing", pairs |-> {}]

JsonDumpMutant(obs) ==
    [kind |-> "json",
     pairs |-> {<<k, IF k = OBSERVATION_COUNTER THEN 0 ELSE obs[k]>> : k \in DOMAIN obs}]

\* json.dump(self.observations, ...)
JsonDump(obs) == [kind |-> "json", pairs |-> {<<k, obs[k]>> : k \in DOMAIN obs}]

\* json.load(...) of a file that parses
JsonLoad(f) ==
    [k \in {p[1] : p \in f.pairs} |-> (CHOOSE p \in f.pairs : p[1] = k)[2]]

(***************************************************************************)
(* Packets.  A live-data packet is described by the records the device     *)
(* put in it: each a tag, the payload size the device gives that tag and   *)
(* the reading val the device encoded; cut is the number of payload bytes  *)
(* of the last record the packet lost; a packet that is not whole ends     *)
(* inside its header, after runt bytes.                                    *)
(***************************************************************************)
Rec(tag, size, val) == [tag |-> tag, size |-> size, val |-> val]

Packet(recs, cut) == [recs |-> recs, cut |-> cut, whole |-> TRUE, runt |-> 0]

Runt(n) == [recs |-> << >>, cut |-> 0, whole |-> FALSE, runt |-> n]

RECURSIVE ToBytes(_, _)
\* val as size bytes, big-endian, two's complement
ToBytes(val, size) ==
    IF size = 0 THEN << >> ELSE Append(ToBytes(val \div 256, size - 1), val % 256)

RECURSIVE Flatten(_)
Flatten(recs) ==
    IF recs = << >> THEN << >>
    ELSE <<recs[1].tag>> \o ToBytes(recs[1].val, recs[1].size) \o Flatten(Tail(recs))

\* header: FF FF, the command 0x27, two bytes of size
PacketHeader == <<255, 255, 39, 0, 0>>

\* the trailing checksum byte, which the code does not verify
PacketChecksum == <<7>>

Body(desc) == LET b == Flatten(desc.recs) IN SubSeq(b, 1, Len(b) - desc.cut)

PacketBytes(desc) ==
    IF ~desc.whole THEN SubSeq(PacketHeader, 1, desc.runt)
    ELSE PacketHeader \o Body(desc) \o PacketChecksum

\* the records of the packet that arrived whole
CompleteRecs(desc) ==
    IF desc.cut = 0 THEN desc.recs ELSE SubSeq(desc.recs, 1, Len(desc.recs) - 1)

\* the offset in the body of record i
RECURSIVE Offset(_, _)
Offset(recs, i) == IF i = 1 THEN 0 ELSE Offset(recs, i - 1) + 1 + recs[i - 1].size

(***************************************************************************)
(* The reference period: the readings folded since the accumulator was     *)
(* last reset, as bags, and the number of packets walked since then.  It   *)
(* follows the accumulator through load, reset, fold and save.             *)
(***************************************************************************)
EmptyPeriod == [packets |-> 0, temps |-> EmptyBag, hums |-> EmptyBag, rains |-> EmptyBag]

RECURSIVE AddReadings(_, _)
AddReadings(g, recs) ==
    IF recs = << >> THEN g
    ELSE LET r == recs[1]
             one == SetToBag({r.val})
         IN  AddReadings(
                 CASE r.tag = 2  -> [g EXCEPT !.temps = @ (+) one]
                   [] r.tag = 7  -> [g EXCEPT !.hums = @ (+) one]
                   [] r.tag = 16 -> [g EXCEPT !.rains = @ (+) one]
                   [] OTHER      -> g,
                 Tail(recs))

RECURSIVE SumOver(_, _)
SumOver(bag, vals) ==
    IF vals = {} THEN 0
    ELSE LET v == CHOOSE x \in vals : TRUE
         IN  v * bag[v] + SumOver(bag, vals \ {v})

BagSum(bag) == SumOver(bag, BagToSet(bag))

BagMax(bag) == CHOOSE x \in BagToSet(bag) : \A y \in BagToSet(bag) : y <= x

BagMin(bag) == CHOOSE x \in BagToSet(bag) : \A y \in BagToSet(bag) : y >= x

(***************************************************************************)
(* The parser object.  m is the state one call of perform works on:        *)
(*   cls     the dictionary the class attribute ECOWITT.observations names *)
(*   own     the dictionary json.load built last                           *)
(*   ref     which of the two self.observations names: "class" or "own"    *)
(*   ts      self.liveDataTimestamp                                        *)
(*   err     self.lastKnownError ("" while unset)                          *)
(*   params  self.params                                                   *)
(*   file    observations.json                                             *)
(*   sink    the addValue calls of this call of perform                    *)
(*   steps   the helper calls of this call of perform, in order            *)
(*   sent    the frames this call of perform sent                          *)
(*   base    the accumulator as _parse_live_data found it                  *)
(*   loaded  the accumulator as _load_observations left it                 *)
(*   calls   the sensor handler calls of the walk                          *)
(*   raised  the exception that ended perform ("" when it returned)        *)
(*   g       the reference period of the accumulator self.observations     *)
(*   gFile   the reference period of the accumulator in the file           *)
(*   saved   the accumulator json.dump wrote into the file, if one did     *)
(*   gLoaded the reference period of the accumulator loaded                *)
(***************************************************************************)
Cur(m) == IF m.ref = "class" THEN m.cls ELSE m.own

SetCur(m, obs) ==
    IF m.ref = "class" THEN [m EXCEPT !.cls = obs] ELSE [m EXCEPT !.own = obs]

Step(m, name) == [m EXCEPT !.steps = Append(@, name)]

\* _log_error(message)
log_error(m, message) == [m EXCEPT !.err = message]

\* _reset_observations(): self.observations names the class dictionary itself
reset_observations(m) ==
    Step([m EXCEPT !.ref = "class", !.cls = [m.cls EXCEPT ![TIMESTAMP] = m.ts],
                   !.g = EmptyPeriod],
         "reset")

\* self.addValue(kind, ts, num / den)
AddValue(kind, ts, num, den) == [kind |-> kind, ts |-> ts, num |-> num, den |-> den]

\* Python 2: int / int floors, anything / float does not
IntDiv(a, b) == a \div b

ReportCallsMutant(obs, ts, n) ==
    << AddValue(TEMPERATURE, ts, obs[TEMPERATURE], n),
       AddValue(MAXTEMP, ts, obs[MAXTEMP], 1),
       AddValue(MINTEMP, ts, obs[MINTEMP], 1),
       AddValue(RH, ts, IntDiv(obs[RH], n), 1),
       AddValue(MAXRH, ts, obs[MAXRH], 1),
       AddValue(MINRH, ts, obs[MINRH], 1),
       AddValue(PRESSURE, ts, obs[PRESSURE], n),
       AddValue(WIND, ts, obs[WIND], n),
       AddValue(RAIN, obs[TIMESTAMP], obs[RAIN], 1),
       AddValue(SOLARRADIATION, ts, obs[SOLARRADIATION], n) >>

\* the ten addValue calls of _report_observations
ReportCalls(obs, ts, n) ==
    << AddValue(TEMPERATURE, ts, obs[TEMPERATURE], n),
       AddValue(MAXTEMP, ts, obs[MAXTEMP], 1),
       AddValue(MINTEMP, ts, obs[MINTEMP], 1),
       AddValue(RH, ts, IntDiv(obs[RH], n), 1),
       AddValue(MAXRH, ts, obs[MAXRH], 1),
       AddValue(MINRH, ts, obs[MINRH], 1),
       AddValue(PRESSURE, ts, obs[PRESSURE], n),
       AddValue(WIND, ts, obs[WIND], n),
       AddValue(RAIN, ts, obs[RAIN], 1),
       AddValue(SOLARRADIATION, ts, obs[SOLARRADIATION], n) >>

\* the counter _report_observations divides by
ReportCounter(obs) == obs[OBSERVATION_COUNTER] + 1

\* _report_observations()
report_observations(m) ==
    LET ts  == rmGetStartOfDayUtc(Cur(m)[TIMESTAMP])
        obs == [Cur(m) EXCEPT ![OBSERVATION_COUNTER] = ReportCounter(Cur(m))]
        m1  == SetCur(m, obs)
    IN  Step([m1 EXCEPT !.sink = @ \o ReportCalls(obs, ts, obs[OBSERVATION_COUNTER])],
             "report")

\* _load_observations(), the backward compatibility check
load_check(m1) ==
    IF m1.raised = "" /\ OBSERVATION_COUNTER \notin DOMAIN Cur(m1)
    THEN reset_observations(m1) ELSE m1

\* _load_observations(), the read of the file
load_read(m, ioerror) ==
    IF m.file.kind = "missing" THEN reset_observations(m)
    ELSE IF ioerror
         THEN log_error(m, "Error: unable to load the Ecowiit parser data file")
    ELSE IF m.file.kind = "garbage" THEN [m EXCEPT !.raised = "ValueError"]
    ELSE [m EXCEPT !.ref = "own", !.own = JsonLoad(m.file), !.g = m.gFile]

\* _load_observations(); ioerror: open or read raises IOError
load_observations(m, ioerror) == load_check(load_read(Step(m, "load"), ioerror))

\* _save_observations(); ioerror: open raises IOError and the file stays as it is
save_observations(m, ioerror) ==
    IF ioerror
    THEN log_error(Step(m, "save"), "Error: unable to save the Ecowitt parser data file")
    ELSE [Step(m, "save") EXCEPT !.file = JsonDump(Cur(m)), !.gFile = m.g,
                                 !.saved = <<Cur(m)>>]

(***************************************************************************)
(* The network.  A call of perform meets one script of the network:        *)
(*   connect  whether the TCP connect to the stored address succeeds       *)
(*   found    whether the TCP connect to a discovered address succeeds     *)
(*   bind     whether the discovery socket can be bound                    *)
(*   replies  what sock.recv gives in each discovery attempt: a timeout    *)
(*            (socket.error) or the bytes of a response                    *)
(*   live     whether sendall and recv of the live-data request succeed    *)
(***************************************************************************)
\* 'auto discover', the IP address a new parser holds: not a dotted quad
AutoDiscover == << >>

DefaultParams == [ip |-> AutoDiscover, port |-> 45000, name |-> << >>]

\* socket.inet_aton(str(ip)) does not raise
IpValid(ip) == Len(ip) = 4

\* '\xff\xff\x12\x03\x15'
BroadcastFrame == <<255, 255, 18, 3, 21>>

\* '\xFF\xFF\x27\x03\x2A'
LiveDataFrame == <<255, 255, 39, 3, 42>>

Timeout == [kind |-> "timeout", bytes |-> << >>]

Reply(bytes) == [kind |-> "data", bytes |-> bytes]

StartsWithGWMutant(name) == Len(name) >= 2

\* device_name.startswith('GW')
StartsWithGW(name) == Len(name) >= 2 /\ name[1] = 71 /\ name[2] = 87

\* _connect(); reachable: whether self.connection.connect succeeds
connect(m, reachable) ==
    IF ~IpValid(m.params.ip) THEN [m |-> m, ok |-> FALSE]
    ELSE IF reachable THEN [m |-> Step(m, "connect"), ok |-> TRUE]
    ELSE [m  |-> log_error(Step(m, "connect"),
                           "Error: unable to connect to the Ecowitt local network device"),
          ok |-> FALSE]

RECURSIVE DiscoverLoop(_, _, _, _)
\* the loop `for n in range(5)` of _discover from its iteration n on, packet
\* being the local variable the loop sends
DiscoverLoop(m, net, n, packet) ==
    IF n >= DiscoverRetries THEN [m |-> log_error(m, m.err), ok |-> FALSE]
    ELSE LET m1 == [m EXCEPT !.sent = Append(@, packet)]
             r  == net.replies[n + 1]
         IN  IF r.kind = "timeout"
             THEN DiscoverLoop(
                      [m1 EXCEPT !.err = "Error: unable to find Ecowitt device on local network"],
                      net, n + 1, packet)
             ELSE LET device_name == PySlice(r.bytes, 18, Len(r.bytes) - 1)
                  IN  IF StartsWithGW(device_name)
                      THEN connect([m1 EXCEPT !.params =
                                        [name |-> device_name,
                                         ip   |-> PySlice(r.bytes, 11, 15),
                                         port |-> read_int(PySlice(r.bytes, 15, 17), TRUE, 2)]],
                                   net.found)
                      ELSE DiscoverLoop(
                               [m1 EXCEPT !.err = "Error: Unsupported local console"],
                               net, n + 1, r.bytes)

\* _discover()
discover(m, net) ==
    IF ~net.bind
    THEN [m  |-> log_error(Step(m, "discover"),
                           "Error: unable to listening for discover packet"),
          ok |-> FALSE]
    ELSE DiscoverLoop(Step(m, "discover"), net, 0, BroadcastFrame)

\* _get_live_data(): the packet (described by packet) received at wall-clock
\* time now, or None
get_live_data(m, net, packet, now) ==
    IF net.live
    THEN [m |-> [Step(m, "get_live_data") EXCEPT !.ts = now, !.sent = Append(@, LiveDataFrame)],
          none |-> FALSE, packet |-> PacketBytes(packet), desc |-> packet]
    ELSE [m |-> log_error(Step(m, "get_live_data"),
                    "Error: unable to retrieve live data from the local network device"),
          none |-> TRUE, packet |-> << >>, desc |-> packet]

\* the new-day test of perform
IsNewDay(m, tz) ==
    rmGetStartOfDay(m.ts, tz) # rmGetStartOfDay(Cur(m)[TIMESTAMP], tz)

perform_new_dayMutant(m1, tz) ==
    IF m1.raised # "" THEN m1
    ELSE IF IsNewDay(m1, tz)
         THEN report_observations(reset_observations(
                  [m1 EXCEPT !.loaded = Cur(m1), !.gLoaded = m1.g, !.rolled = TRUE]))
         ELSE [m1 EXCEPT !.loaded = Cur(m1)]

\* perform, the new-day branch: m1 is the parser after _load_observations
perform_new_day(m1, tz) ==
    IF m1.raised # "" THEN m1
    ELSE IF IsNewDay(m1, tz)
         THEN reset_observations(report_observations(
                  [m1 EXCEPT !.loaded = Cur(m1), !.gLoaded = m1.g, !.rolled = TRUE]))
         ELSE [m1 EXCEPT !.loaded = Cur(m1)]

\* perform, `self._parse_live_data(live_data)`: w is the walk of the packet on
\* the accumulator of m2; len(None) raises TypeError
perform_parse(m2, live, w) ==
    IF m2.raised # "" THEN m2
    ELSE IF live.none
         THEN [Step(m2, "parse") EXCEPT !.base = Cur(m2), !.raised = "TypeError"]
    ELSE [SetCur(Step(m2, "parse"), w.obs) EXCEPT
              !.base = Cur(m2), !.calls = w.calls, !.index = w.index,
              !.raised = IF w.raised THEN "struct.error" ELSE "",
              !.g = [AddReadings(m2.g, CompleteRecs(live.desc)) EXCEPT
                         !.packets = IF w.raised THEN @ ELSE @ + 1]]

perform_reportMutant(m3, saveError) ==
    save_observations(report_observations(m3), saveError)

\* perform, the report and the save that end it
perform_report(m3, saveError) ==
    IF m3.raised # "" THEN m3
    ELSE save_observations(report_observations(m3), saveError)

\* perform, from the new-day test to its end
perform_fold(m2, live, saveError) ==
    perform_report(perform_parse(m2, live, parse_live_data(Cur(m2), live.packet)),
                   saveError)

\* perform, from `self._load_observations()` to its end
AfterLiveData(live, tz, loadError, saveError) ==
    perform_fold(perform_new_day(load_observations(live.m, loadError), tz), live,
                 saveError)

\* perform, once `self._connect() or self._discover()` is known: c
perform_connected(c, net, packet, now, tz, loadError, saveError) ==
    IF c.ok
    THEN AfterLiveData(get_live_data(c.m, net, packet, now), tz, loadError, saveError)
    ELSE [c.m EXCEPT !.connected = FALSE]

\* `self._connect() or self._discover()`, c being what _connect gave
connect_or_discover(c, net) == IF c.ok THEN c ELSE discover(c.m, net)

\* perform()
perform(m, net, packet, now, tz, loadError, saveError) ==
    perform_connected(connect_or_discover(connect(m, net.connect), net),
                      net, packet, now, tz, loadError, saveError)

(***************************************************************************)
(* The inputs of the model.                                                *)
(***************************************************************************)
\* a response of a GW1000: header, MAC, IP 192.168.1.10, port 45000, name "GW1"
GwResponse == <<255, 255, 18, 0, 23>> \o <<1, 2, 3, 4, 5, 6>> \o <<192, 168, 1, 10>>
              \o <<175, 200>> \o <<3>> \o <<71, 87, 49>> \o <<0>>

\* a response of another console, name "AMB"
AmbResponse == <<255, 255, 18, 0, 23>> \o <<1, 2, 3, 4, 5, 7>> \o <<192, 168, 1, 11>>
               \o <<175, 200>> \o <<3>> \o <<65, 77, 66>> \o <<0>>

AllReplies(r) == [i \in 1..DiscoverRetries |-> r]

\* the device answers
NetOk == [connect |-> TRUE, found |-> TRUE, bind |-> TRUE,
          replies |-> AllReplies(Reply(GwResponse)), live |-> TRUE]

\* nothing answers
NetDown == [connect |-> FALSE, found |-> FALSE, bind |-> TRUE,
            replies |-> AllReplies(Timeout), live |-> FALSE]

\* the device accepts the connection and the live-data exchange fails
NetLiveFail == [NetOk EXCEPT !.live = FALSE]

NetScripts == {NetOk, NetDown, NetLiveFail}

\* the packets of the poll cycles: two plain ones, one with two temperature
\* records beyond the sentinels and a humidity beyond 100, one whose last
\* record (a temperature) lost a byte
LivePackets ==
    { Packet(<<Rec(1, 2, 215), Rec(2, 2, 200), Rec(7, 1, 50), Rec(9, 2, 10132),
               Rec(11, 2, 25), Rec(16, 2, 10), Rec(21, 4, 1000)>>, 0),
      Packet(<<Rec(2, 2, 100), Rec(7, 1, 51), Rec(16, 2, 5)>>, 0),
      Packet(<<Rec(2, 2, 1500), Rec(2, 2, -1200), Rec(7, 1, 120)>>, 0),
      Packet(<<Rec(7, 1, 50), Rec(2, 2, 200)>>, 1) }

\* a state file of the version that kept no observation counter
OldFormatFile ==
    JsonDump([k \in (DOMAIN DefaultObservations) \ {OBSERVATION_COUNTER} |->
                 IF k = TEMPERATURE THEN 215 ELSE DefaultObservations[k]])

TimeZones == {0, 1}

\* the ticks between two calls of perform: within a day or a whole day
Delays == {1, TicksPerDay}

(***************************************************************************)
(* The state.                                                              *)
(***************************************************************************)
VARIABLES
    clock,              \* the wall clock at the last call of perform
    tz,                 \* the offset of the local time zone
    cycles,             \* calls of perform so far
    faults,             \* faults injected so far
    cls,                \* ECOWITT.observations, the class dictionary
    own,                \* the dictionary json.load built last
    ref,                \* what self.observations names: "class" or "own"
    liveDataTimestamp,  \* self.liveDataTimestamp
    lastKnownError,     \* self.lastKnownError
    params,             \* self.params
    file,               \* observations.json
    last,               \* what the last call of perform did
    gCur,               \* the reference period of self.observations
    gFile,              \* the reference period of the file's accumulator
    saved,              \* the accumulator json.dump wrote into the file, if one did
    walk                \* a walk of _parse_live_data taken step by step

vars == <<clock, tz, cycles, faults, cls, own, ref, liveDataTimestamp, lastKnownError,
          params, file, last, gCur, gFile, saved, walk>>

\* self.observations
Observations == IF ref = "class" THEN cls ELSE own

NoCall == [done |-> FALSE, connected |-> FALSE, raised |-> "", rolled |-> FALSE,
           sink |-> << >>, steps |-> << >>, sent |-> << >>,
           base |-> DefaultObservations, loaded |-> DefaultObservations,
           gLoaded |-> EmptyPeriod,
           calls |-> << >>, index |-> 0, desc |-> Runt(0), none |-> TRUE,
           loadError |-> FALSE, saveError |-> FALSE, fileBefore |-> NoFile,
           fileAfter |-> NoFile, savedBefore |-> << >>, net |-> NetDown,
           paramsBefore |-> DefaultParams, before |-> DefaultObservations, now |-> 0]

IdleWalk == [phase |-> "idle", data |-> << >>, index |-> 0, obs |-> DefaultObservations,
             start |-> DefaultObservations, desc |-> Runt(0), moves |-> << >>]

Init ==
    /\ clock = TicksPerDay
    /\ tz \in TimeZones
    /\ cycles = 0
    /\ faults = 0
    /\ cls = DefaultObservations
    /\ own = DefaultObservations
    /\ ref = "class"
    /\ liveDataTimestamp = 0
    /\ lastKnownError = ""
    /\ params = DefaultParams
    /\ file \in {NoFile, OldFormatFile}
    /\ last = NoCall
    /\ gCur = EmptyPeriod
    /\ gFile = EmptyPeriod
    /\ saved = << >>
    /\ walk = IdleWalk

\* the parser as a call of perform finds it
Machine ==
    [cls |-> cls, own |-> own, ref |-> ref, ts |-> liveDataTimestamp,
     err |-> lastKnownError, params |-> params, file |-> file, g |-> gCur,
     gFile |-> gFile, saved |-> saved, sink |-> << >>, steps |-> << >>, sent |-> << >>,
     base |-> DefaultObservations, loaded |-> DefaultObservations,
     gLoaded |-> EmptyPeriod, calls |-> << >>, index |-> 0, raised |-> "",
     rolled |-> FALSE, connected |-> TRUE]

FaultsOf(net, loadError, saveError) ==
    (IF net = NetOk THEN 0 ELSE 1) + (IF loadError THEN 1 ELSE 0)
    + (IF saveError THEN 1 ELSE 0)

(***************************************************************************)
(* One call of perform by the scheduler, dt ticks after the last one.      *)
(***************************************************************************)
Perform(net, desc, dt, loadError, saveError) ==
    /\ cycles < MaxCycles
    /\ faults + FaultsOf(net, loadError, saveError) <= MaxFaults
    /\ loadError => file.kind # "missing"
    /\ \E m \in {perform(Machine, net, desc, clock + dt, tz, loadError, saveError)} :
        /\ clock' = clock + dt
        /\ cycles' = cycles + 1
        /\ faults' = faults + FaultsOf(net, loadError, saveError)
        /\ cls' = m.cls
        /\ own' = IF m.ref = "class" THEN m.cls ELSE m.own
        /\ ref' = m.ref
        /\ liveDataTimestamp' = m.ts
        /\ lastKnownError' = m.err
        /\ params' = m.params
        /\ file' = m.file
        /\ gCur' = m.g
        /\ gFile' = m.gFile
        /\ saved' = m.saved
        /\ last' = [done |-> TRUE, connected |-> m.connected, raised |-> m.raised,
                    rolled |-> m.rolled, sink |-> m.sink, steps |-> m.steps,
                    sent |-> m.sent, base |-> m.base, loaded |-> m.loaded,
                    gLoaded |-> m.gLoaded,
                    calls |-> m.calls, index |-> m.index, desc |-> desc,
                    none |-> ~net.live, loadError |-> loadError,
                    saveError |-> saveError,
                    fileBefore |-> file, fileAfter |-> m.file, savedBefore |-> saved,
                    net |-> net, paramsBefore |-> params,
                    before |-> Observations, now |-> clock + dt]
    /\ UNCHANGED <<tz, walk>>

\* the process ends and a new one constructs the parser
Restart ==
    /\ last.done
    /\ cls' = DefaultObservations
    /\ own' = DefaultObservations
    /\ ref' = "class"
    /\ liveDataTimestamp' = 0
    /\ lastKnownError' = ""
    /\ gCur' = EmptyPeriod
    /\ last' = NoCall
    /\ UNCHANGED <<clock, tz, cycles, faults, params, file, gFile, saved, walk>>

\* the state file is removed between two calls
FileRemoved ==
    /\ faults < MaxFaults
    /\ file.kind # "missing"
    /\ file' = NoFile
    /\ gFile' = EmptyPeriod
    /\ saved' = << >>
    /\ faults' = faults + 1
    /\ UNCHANGED <<clock, tz, cycles, cls, own, ref, liveDataTimestamp, lastKnownError,
                   params, last, gCur, walk>>

\* the state file is damaged between two calls: it no longer parses
FileDamaged ==
    /\ faults < MaxFaults
    /\ file.kind = "json"
    /\ file' = [kind |-> "garbage", pairs |-> {}]
    /\ gFile' = EmptyPeriod
    /\ saved' = << >>
    /\ faults' = faults + 1
    /\ UNCHANGED <<clock, tz, cycles, cls, own, ref, liveDataTimestamp, lastKnownError,
                   params, last, gCur, walk>>

Next ==
    \/ \E net \in NetScripts, desc \in LivePackets, dt \in Delays,
          loadError \in BOOLEAN, saveError \in BOOLEAN :
           Perform(net, desc, dt, loadError, saveError)
    \/ Restart
    \/ FileRemoved
    \/ FileDamaged

Spec == Init /\ [][Next]_vars

(***************************************************************************)
(* The walk of _parse_live_data, one call of _read_sensor at a time.       *)
(*   phase  "idle", "walking", "done" (the loop ended) or "raised"         *)
(*   data   the stripped body, index the cursor, obs the accumulator       *)
(*   start  the accumulator before the walk, desc the packet's description *)
(*   moves  the calls of _read_sensor so far: the handler call, the        *)
(*          accumulator before and after it, the cursor it returned        *)
(***************************************************************************)
\* the records a device may send: value sensors, ignored sensors of every
\* payload size, and tags the registry does not hold
WalkPool ==
    { Rec(2, 2, 200), Rec(2, 2, -100), Rec(7, 1, 50), Rec(9, 2, 10132), Rec(11, 2, 25),
      Rec(16, 2, 10), Rec(21, 4, 1000),
      Rec(1, 2, 215), Rec(6, 1, 45), Rec(99, 3, 7), Rec(18, 4, 9), Rec(24, 6, 1),
      Rec(76, 16, 2),
      Rec(75, 1, 7), Rec(0, 1, 2) }

LastSize(recs) == IF recs = << >> THEN 0 ELSE recs[Len(recs)].size

\* every sequence of at most MaxRecords records, whole or with its last record cut
WalkPackets ==
    UNION { {Packet(recs, cut) : cut \in 0..LastSize(recs)} :
            recs \in UNION {[1..k -> WalkPool] : k \in 0..MaxRecords} }

\* the accumulators a walk may start from: the defaults, and one of a period
\* under way
WalkStarts ==
    { DefaultObservations,
      [DefaultObservations EXCEPT ![OBSERVATION_COUNTER] = 2, ![TEMPERATURE] = 300,
           ![MAXTEMP] = 200, ![MINTEMP] = 100, ![RH] = 101, ![MAXRH] = 51, ![MINRH] = 50,
           ![RAIN] = 10, ![WIND] = 50, ![PRESSURE] = 20264, ![SOLARRADIATION] = 2844000] }

\* _parse_live_data(packet) up to the first test of its loop
WalkStart(desc, obs) ==
    /\ walk.phase = "idle"
    /\ walk' = [phase |-> IF 0 < Len(StripPacket(PacketBytes(desc))) THEN "walking" ELSE "done",
                data  |-> StripPacket(PacketBytes(desc)),
                index |-> 0, obs |-> obs, start |-> obs, desc |-> desc, moves |-> << >>]
    /\ UNCHANGED <<clock, tz, cycles, faults, cls, own, ref, liveDataTimestamp,
                   lastKnownError, params, file, last, gCur, gFile, saved>>

\* one turn of the loop: index = self._read_sensor(data, index), then the test
WalkStep ==
    /\ walk.phase = "walking"
    /\ \E r \in {read_sensor(walk.obs, walk.data, walk.index)} :
           walk' = [walk EXCEPT
                      !.phase = IF r.raised THEN "raised"
                                ELSE IF r.index < Len(walk.data) THEN "walking" ELSE "done",
                      !.index = r.index,
                      !.obs   = r.obs,
                      !.moves = Append(@, [call |-> r.call, before |-> walk.obs,
                                           after |-> r.obs, next |-> r.index,
                                           raised |-> r.raised])]
    /\ UNCHANGED <<clock, tz, cycles, faults, cls, own, ref, liveDataTimestamp,
                   lastKnownError, params, file, last, gCur, gFile, saved>>

NextWalk ==
    \/ /\ walk.phase = "idle"
       /\ \E desc \in WalkPackets \cup {Runt(n) : n \in 0..HeaderSize}, obs \in WalkStarts :
              WalkStart(desc, obs)
    \/ WalkStep

InitWalk == Init /\ file = NoFile /\ tz = 0

SpecWalk == InitWalk /\ [][NextWalk]_vars

\* the walk once more, for its termination: a value sensor of each payload
\* size the walk reads in a period's packets, an ignored sensor of a small and
\* of a larger payload, and a tag the registry does not hold
FairPool == {Rec(2, 2, 200), Rec(7, 1, 50), Rec(6, 1, 45), Rec(18, 4, 9), Rec(75, 1, 7)}

FairPackets ==
    UNION { {Packet(recs, cut) : cut \in 0..LastSize(recs)} :
            recs \in UNION {[1..k -> FairPool] : k \in 0..MaxRecords} }

NextWalkFair ==
    \/ /\ walk.phase = "idle"
       /\ \E desc \in FairPackets \cup {Runt(n) : n \in 0..HeaderSize} :
              WalkStart(desc, DefaultObservations)
    \/ WalkStep

\* the loop is sequential code: a call of _read_sensor that can be made is made
SpecWalkFair == InitWalk /\ [][NextWalkFair]_vars /\ WF_vars(WalkStep)

(***************************************************************************)
(* One run of _discover, as perform calls it when _connect gave False,     *)
(* against every script of the network: in each of the attempts a timeout, *)
(* the response of a GW1000 or the response of another console.            *)
(***************************************************************************)
\* the parameters a parser holds once a device was found
StoredParams == [ip |-> <<192, 168, 1, 20>>, port |-> 45000, name |-> <<71, 87, 50>>]

DiscoverReplies == {Timeout, Reply(GwResponse), Reply(AmbResponse)}

DiscoverScripts ==
    { [connect |-> FALSE, found |-> found, bind |-> bind, replies |-> replies,
       live |-> FALSE] :
        found \in BOOLEAN, bind \in BOOLEAN,
        replies \in [1..DiscoverRetries -> DiscoverReplies] }

Discover(net) ==
    /\ ~last.done
    /\ \E c \in {discover(Machine, net)} :
           /\ params' = c.m.params
           /\ lastKnownError' = c.m.err
           /\ last' = [NoCall EXCEPT !.done = TRUE, !.connected = c.ok,
                                     !.steps = c.m.steps, !.sent = c.m.sent,
                                     !.net = net, !.paramsBefore = params]
    /\ UNCHANGED <<clock, tz, cycles, faults, cls, own, ref, liveDataTimestamp, file,
                   gCur, gFile, saved, walk>>

NextDiscover == \E net \in DiscoverScripts : Discover(net)

InitDiscover ==
    /\ clock = TicksPerDay
    /\ tz = 0
    /\ cycles = 0
    /\ faults = 0
    /\ cls = DefaultObservations
    /\ own = DefaultObservations
    /\ ref = "class"
    /\ liveDataTimestamp = 0
    /\ lastKnownError = ""
    /\ params \in {DefaultParams, StoredParams}
    /\ file = NoFile
    /\ last = NoCall
    /\ gCur = EmptyPeriod
    /\ gFile = EmptyPeriod
    /\ saved = << >>
    /\ walk = IdleWalk

SpecDiscover == InitDiscover /\ [][NextDiscover]_vars

(***************************************************************************)
(* What the claims speak of.                                               *)
(***************************************************************************)
\* the last call of perform received a packet
Polled == last.done /\ last.connected /\ ~last.none

\* the last call of perform received a packet and returned
Completed == Polled /\ last.raised = ""

\* the last call of perform found a new day
RolledOver == Polled /\ last.rolled

\* the i-th run of _report_observations in the last call: its ten addValue calls
Batch(i) == SubSeq(last.sink, 10 * (i - 1) + 1, 10 * i)

\* the report of the finished period, in a call that found a new day
FinalizationReport == Batch(1)

\* the report a completed call ends with
CurrentReport == Batch(Len(last.sink) \div 10)

Reported(batch, kind) == batch[CHOOSE i \in 1..Len(batch) : batch[i].kind = kind]

\* the reported value num/den is the quotient a/b
IsQuotient(call, a, b) == call.num * b = a * call.den

\* the defaults with the period start t
DefaultsAt(t) == [DefaultObservations EXCEPT ![TIMESTAMP] = t]

MeanKinds == {TEMPERATURE, RH, PRESSURE, WIND, SOLARRADIATION}

DirectKinds == {MAXTEMP, MINTEMP, MAXRH, MINRH, RAIN}

\* the accumulator after folding one whole record, by the device's protocol
RefFoldOne(obs, rec) ==
    CASE rec.tag = 2  -> [obs EXCEPT ![TEMPERATURE] = @ + rec.val,
                                     ![MAXTEMP] = Max(@, rec.val),
                                     ![MINTEMP] = Min(@, rec.val)]
      [] rec.tag = 7  -> [obs EXCEPT ![RH] = @ + rec.val,
                                     ![MAXRH] = Max(@, rec.val),
                                     ![MINRH] = Min(@, rec.val)]
      [] rec.tag = 9  -> [obs EXCEPT ![PRESSURE] = @ + rec.val]
      [] rec.tag = 11 -> [obs EXCEPT ![WIND] = @ + rec.val]
      [] rec.tag = 16 -> [obs EXCEPT ![RAIN] = Max(@, rec.val)]
      [] rec.tag = 21 -> [obs EXCEPT ![SOLARRADIATION] = @ + rec.val * 79 * 36]
      [] OTHER        -> obs

RECURSIVE RefFold(_, _)
RefFold(obs, recs) ==
    IF recs = << >> THEN obs ELSE RefFold(RefFoldOne(obs, recs[1]), Tail(recs))

\* the body is a concatenation of whole records of tags the registry holds
WellFormed(desc) ==
    /\ desc.whole
    /\ desc.cut = 0
    /\ \A i \in 1..Len(desc.recs) : desc.recs[i].tag \in KnownTags

(***************************************************************************)
(* C1.  In a call that finds a new day and has a packet, the accumulator   *)
(* the packet is folded into is the defaults with the period start at the  *)
(* poll's timestamp, and the counter is 1 when the call returns.           *)
(***************************************************************************)
C1_RolloverFoldsIntoDefaults ==
    RolledOver =>
        /\ last.base = DefaultsAt(last.now)
        /\ Completed => Observations[OBSERVATION_COUNTER] = 1

(***************************************************************************)
(* C2.  In a call that finds a new day, the report of the finished period  *)
(* gives each mean as the loaded running sum divided by the loaded         *)
(* counter, and the loaded extrema and rain as they are.                   *)
(***************************************************************************)
C2_FinalizationReportOfLoadedState ==
    (RolledOver /\ last.loaded[OBSERVATION_COUNTER] >= 1) =>
        /\ \A k \in MeanKinds :
               IsQuotient(Reported(FinalizationReport, k), last.loaded[k],
                          last.loaded[OBSERVATION_COUNTER])
        /\ \A k \in DirectKinds :
               IsQuotient(Reported(FinalizationReport, k), last.loaded[k], 1)

(***************************************************************************)
(* C3.  After a completed call the counter of the current period is the    *)
(* number of packets walked in that period.                                *)
(***************************************************************************)
C3_CounterIsPacketsWalked ==
    Completed => Observations[OBSERVATION_COUNTER] = gCur.packets

(***************************************************************************)
(* C4.  Every report of a period with k >= 1 temperature readings folded   *)
(* gives the temperature mean as their sum divided by k.                   *)
(***************************************************************************)
C4_TemperatureMeanOfReadings ==
    /\ (Completed /\ BagCardinality(gCur.temps) >= 1) =>
           IsQuotient(Reported(CurrentReport, TEMPERATURE), BagSum(gCur.temps),
                      BagCardinality(gCur.temps))
    /\ (RolledOver /\ BagCardinality(last.gLoaded.temps) >= 1) =>
           IsQuotient(Reported(FinalizationReport, TEMPERATURE),
                      BagSum(last.gLoaded.temps), BagCardinality(last.gLoaded.temps))

(***************************************************************************)
(* C5.  Every report of a period with temperature readings folded gives    *)
(* their maximum and minimum, and the same for the humidity readings.      *)
(***************************************************************************)
ExtremaOf(batch, g) ==
    /\ BagCardinality(g.temps) >= 1 =>
           /\ IsQuotient(Reported(batch, MAXTEMP), BagMax(g.temps), 1)
           /\ IsQuotient(Reported(batch, MINTEMP), BagMin(g.temps), 1)
    /\ BagCardinality(g.hums) >= 1 =>
           /\ IsQuotient(Reported(batch, MAXRH), BagMax(g.hums), 1)
           /\ IsQuotient(Reported(batch, MINRH), BagMin(g.hums), 1)

C5_ExtremaOfReadings ==
    /\ Completed => ExtremaOf(CurrentReport, gCur)
    /\ RolledOver => ExtremaOf(FinalizationReport, last.gLoaded)

(***************************************************************************)
(* C6.  Every report of a period with rain-day readings folded gives       *)
(* their maximum as the rain total.                                        *)
(***************************************************************************)
C6_RainIsMaxOfReadings ==
    /\ (Completed /\ BagCardinality(gCur.rains) >= 1) =>
           IsQuotient(Reported(CurrentReport, RAIN), BagMax(gCur.rains), 1)
    /\ (RolledOver /\ BagCardinality(last.gLoaded.rains) >= 1) =>
           IsQuotient(Reported(FinalizationReport, RAIN), BagMax(last.gLoaded.rains), 1)

(***************************************************************************)
(* C7.  On a body made of whole records of known tags the walk never       *)
(* raises; its calls so far are the first records in order, each at its    *)
(* record's offset with its record's size, the cursor is the offset after  *)
(* them, the accumulator is the start with exactly those records folded;   *)
(* and the loop ends with the cursor at the length of the body, after one  *)
(* call per record.                                                        *)
(***************************************************************************)
C7_WalkVisitsEachRecordOnce ==
    (walk.phase # "idle" /\ WellFormed(walk.desc)) =>
        LET recs == walk.desc.recs
            n    == Len(walk.moves)
        IN  /\ walk.phase # "raised"
            /\ n <= Len(recs)
            /\ \A i \in 1..n :
                   /\ walk.moves[i].call.tag = recs[i].tag
                   /\ walk.moves[i].call.index = Offset(recs, i)
                   /\ walk.moves[i].call.size = recs[i].size
                   /\ walk.moves[i].next = Offset(recs, i) + 1 + recs[i].size
                   /\ walk.moves[i].after = RefFoldOne(walk.moves[i].before, recs[i])
            /\ walk.index = IF n = 0 THEN 0 ELSE walk.moves[n].next
            /\ walk.obs = RefFold(walk.start, SubSeq(recs, 1, n))
            /\ walk.phase = "done" => (n = Len(recs) /\ walk.index = Len(walk.data))
            /\ walk.phase = "walking" => walk.index < Len(walk.data)

C7_Witness ==
    /\ walk.phase = "done"
    /\ WellFormed(walk.desc)
    /\ Len(walk.moves) = 2
    /\ walk.moves[1].call.reader = "_ignore_sensor"
    /\ walk.moves[2].call.reader = "_outdoor_temperature"
    /\ walk.obs # walk.start

(***************************************************************************)
(* C8.  A packet whose last record lost payload bytes does not make the    *)
(* walk raise: the loop ends with the whole records folded and no other.   *)
(***************************************************************************)
C8_TruncatedRecordStopsWalk ==
    (walk.phase # "idle" /\ walk.desc.whole /\ walk.desc.cut > 0) =>
        /\ walk.phase # "raised"
        /\ walk.phase = "done" =>
               walk.obs = RefFold(walk.start, CompleteRecs(walk.desc))

(***************************************************************************)
(* C9.  A call of _read_sensor on a tag the registry does not hold does    *)
(* not raise, returns the cursor advanced by 2 and leaves the accumulator  *)
(* as it was; the next call is at that cursor, on the tag found there, and *)
(* folds that record as its own handler does.                              *)
(***************************************************************************)
C9_UnknownTagSkipsTwo ==
    \A i \in 1..Len(walk.moves) :
        walk.moves[i].call.tag \notin KnownTags =>
            /\ ~walk.moves[i].raised
            /\ walk.moves[i].next = walk.moves[i].call.index + 2
            /\ walk.moves[i].after = walk.moves[i].before
            /\ (i < Len(walk.moves) /\ walk.desc.cut = 0) =>
                   /\ walk.moves[i + 1].call.index = walk.moves[i].call.index + 2
                   /\ walk.moves[i + 1].call.tag = walk.desc.recs[i + 1].tag
                   /\ walk.moves[i + 1].after =
                          RefFoldOne(walk.moves[i + 1].before, walk.desc.recs[i + 1])

C9_Witness ==
    /\ walk.phase = "done"
    /\ Len(walk.moves) = 2
    /\ walk.moves[1].call.tag \notin KnownTags
    /\ walk.moves[2].call.reader = "_outdoor_humidity"
    /\ walk.moves[2].after # walk.moves[2].before

(***************************************************************************)
(* C10.  When the state file is missing, unreadable, unparseable or holds  *)
(* no observation counter, the call does not fail and loading leaves the   *)
(* defaults with the period start at the poll's timestamp.                 *)
(***************************************************************************)
LoadFindsNoState ==
    \/ last.fileBefore.kind \in {"missing", "garbage"}
    \/ last.loadError
    \/ OBSERVATION_COUNTER \notin {p[1] : p \in last.fileBefore.pairs}

C10_LoadFallsBackToDefaults ==
    (Polled /\ LoadFindsNoState) =>
        /\ last.raised # "ValueError"
        /\ last.loaded = DefaultsAt(last.now)

(***************************************************************************)
(* C11.  When a call of perform loads the state file that a json.dump of   *)
(* an earlier call wrote (the file not removed or damaged since, and open  *)
(* not failing), the accumulator after _load_observations equals the       *)
(* accumulator that was dumped in every field: counter, sums, extrema,     *)
(* rain and period start; in the same process and in a new one.            *)
(***************************************************************************)
LoadsSavedFile ==
    /\ last.done
    /\ last.connected
    /\ last.savedBefore # << >>
    /\ ~last.loadError

C12_EmptyPeriodIsNotReported ==
    (RolledOver /\ last.loaded[OBSERVATION_COUNTER] = 0) =>
        /\ \A i \in 1..Len(last.steps) :
               last.steps[i] = "report" => \E j \in 1..(i - 1) : last.steps[j] = "parse"
        /\ Len(last.sink) <= Len(ReportCalls(DefaultObservations, 0, 1))

(***************************************************************************)
(* C13.  A run of _discover makes at most 5 attempts, one per timeout or   *)
(* rejected response up to the first response of a GW device; when no      *)
(* attempt is answered by a GW device (or the socket cannot be bound) it   *)
(* returns False, opens no connection, leaves IP address, port and device  *)
(* name as they were and leaves lastKnownError set; a GW response is the   *)
(* only one that opens a connection and stores an address.                 *)
(***************************************************************************)
\* the first attempt a GW device answers, 0 when none does
FirstGW(replies) ==
    IF \E i \in DOMAIN replies : replies[i] = Reply(GwResponse)
    THEN CHOOSE i \in DOMAIN replies :
             /\ replies[i] = Reply(GwResponse)
             /\ \A j \in 1..(i - 1) : replies[j] # Reply(GwResponse)
    ELSE 0

ConnectSteps == {i \in 1..Len(last.steps) : last.steps[i] = "connect"}

C13_DiscoveryBoundedAndSelective ==
    last.done =>
        LET first == FirstGW(last.net.replies)
        IN  /\ Len(last.sent) <= 5
            /\ last.net.bind => Len(last.sent) = IF first = 0 THEN 5 ELSE first
            /\ (~last.net.bind \/ first = 0) =>
                   /\ ~last.connected
                   /\ ConnectSteps = {}
                   /\ params = last.paramsBefore
                   /\ lastKnownError # ""
            /\ (last.net.bind /\ first # 0) =>
                   /\ Cardinality(ConnectSteps) = 1
                   /\ last.connected = last.net.found
                   /\ params.ip = <<192, 168, 1, 10>>
                   /\ params.name = <<71, 87, 49>>

\* a run whose attempts meet another console, then timeouts, and no GW device
C13_Witness ==
    /\ last.done
    /\ last.net.bind
    /\ last.net.replies[1] = Reply(AmbResponse)
    /\ last.net.replies[2] = Timeout
    /\ FirstGW(last.net.replies) = 0
    /\ last.paramsBefore = StoredParams
    /\ Len(last.sent) = 5
    /\ ~last.connected

(***************************************************************************)
(* C14.  Every frame a run of _discover sends, in its first attempt and in *)
(* each later one, is the five bytes FF FF 12 03 15.                       *)
(***************************************************************************)
C14_EveryAttemptSendsBroadcastFrame ==
    last.done => \A i \in 1..Len(last.sent) : last.sent[i] = <<255, 255, 18, 3, 21>>

(***************************************************************************)
(* C15.  A call of perform that received a packet and loaded the state     *)
(* runs the finalization report and the reset if and only if the UTC day   *)
(* of the poll's timestamp differs from the UTC day of the loaded period   *)
(* start, whatever the offset of the local time zone.                      *)
(***************************************************************************)
UtcDay(t) == t \div TicksPerDay

C15_RolloverIffUtcDayDiffers ==
    (Polled /\ last.raised # "ValueError") =>
        (last.rolled <=> UtcDay(last.now) # UtcDay(last.loaded[TIMESTAMP]))

(***************************************************************************)
(* C16.  A call of perform in which the connection could not be made       *)
(* (direct connect and discovery both failing) or the live-data exchange   *)
(* failed with a socket error returns without raising and leaves           *)
(* lastKnownError set.                                                     *)
(***************************************************************************)
ConnectivityFailure == last.done /\ (~last.connected \/ last.none)

C16_ConnectivityFailureEndsQuietly ==
    ConnectivityFailure => (last.raised = "" /\ lastKnownError # "")

(***************************************************************************)
(* C17.  A call of perform that fails to connect, to discover or to        *)
(* receive the live data leaves the state file as it found it; a call      *)
(* changes the file only by the save at its end, after the walk of a       *)
(* received packet ran through the whole body without raising.             *)
(***************************************************************************)
C17_AbortedCycleLeavesFile ==
    /\ ConnectivityFailure => last.fileAfter = last.fileBefore
    /\ (last.done /\ last.fileAfter # last.fileBefore) =>
           /\ Polled
           /\ last.raised = ""
           /\ last.index >= Len(StripPacket(PacketBytes(last.desc)))
           /\ last.steps[Len(last.steps)] = "save"
           /\ last.fileAfter.kind = "json"

\* a live-data failure in a later cycle of a process, the file holding the
\* state an earlier cycle saved
C17_Witness ==
    /\ last.done
    /\ last.connected
    /\ last.none
    /\ last.savedBefore # << >>
    /\ last.fileAfter = last.fileBefore
    /\ last.fileBefore.kind = "json"

(***************************************************************************)
(* C18.  In a call of perform that received a packet and returned, the     *)
(* helper calls are in this order: one load, then (only when a new day was *)
(* found) the finalization report directly followed by the reset, then one *)
(* walk, one report and the save as the last step; every reset precedes    *)
(* the walk, the finalization report shows the loaded extrema and rain,    *)
(* the walk starts from a period begun at the poll's timestamp, and the    *)
(* file then holds the final accumulator unless the write itself failed.   *)
(***************************************************************************)
StepsAt(name) == {i \in 1..Len(last.steps) : last.steps[i] = name}

TheStep(name) == CHOOSE i \in StepsAt(name) : TRUE

C18_OrderOfSteps ==
    Completed =>
        LET n == Len(last.steps) IN
        /\ Cardinality(StepsAt("load")) = 1
        /\ Cardinality(StepsAt("parse")) = 1
        /\ Cardinality(StepsAt("save")) = 1
        /\ TheStep("load") < TheStep("parse")
        /\ last.steps[n] = "save"
        /\ last.steps[n - 1] = "report"
        /\ last.steps[n - 2] = "parse"
        /\ \A i \in StepsAt("reset") :
               TheStep("load") < i /\ i < TheStep("parse")
        /\ \A i \in StepsAt("get_live_data") : i < TheStep("load")
        /\ last.rolled <=> \E i \in StepsAt("report") : i < TheStep("parse")
        /\ last.rolled =>
               /\ Cardinality(StepsAt("report")) = 2
               /\ last.steps[n - 3] = "reset"
               /\ last.steps[n - 4] = "report"
               /\ \A k \in DirectKinds :
                      Reported(FinalizationReport, k).num = last.loaded[k]
               /\ last.base[TIMESTAMP] = last.now
        /\ ~last.rolled => Cardinality(StepsAt("report")) = 1
        /\ ~last.saveError =>
               last.fileAfter.pairs = {<<k, Observations[k]>> : k \in DOMAIN Observations}

\* a completed call that found a new day, reported it and saved
C18_Witness ==
    /\ Completed
    /\ last.rolled
    /\ ~last.saveError
    /\ last.fileAfter # last.fileBefore
    /\ last.fileBefore.kind = "json"
    /\ Len(last.calls) >= 3

(***************************************************************************)
(* C19.  The class dictionary ECOWITT.observations, the template of every  *)
(* reset, keeps its counter 0, its sums and rain 0 and its sentinel        *)
(* extrema in every reachable state (its timestamp, which the reset itself *)
(* writes, is left out), and the accumulator a completed call has folded   *)
(* into is the instance's own dictionary, not the class dictionary.        *)
(***************************************************************************)
C19_TemplateNeverChanges ==
    /\ \A k \in DOMAIN cls \ {TIMESTAMP} : cls[k] = DefaultObservations[k]
    /\ Completed => ref # "class"

(***************************************************************************)
(* C20.  The humidity mean of the report made after the walk is the        *)
(* running humidity sum divided by the counter, exactly: readings 50 and   *)
(* 51 in two polls are reported as 50.5.                                   *)
(***************************************************************************)
C20_HumidityMeanNotTruncated ==
    Completed =>
        IsQuotient(Reported(CurrentReport, RH),
                   Observations[RH], Observations[OBSERVATION_COUNTER])

(***************************************************************************)
(* C21.  Every execution of _report_observations in a call of perform      *)
(* makes ten addValue calls, one for each of the ten kinds, all with the   *)
(* UTC midnight before the start of the period it reports: the report      *)
(* before the reset of a new day with that of the loaded period, the       *)
(* report after the walk with that of the period the packet was folded     *)
(* into, which in a new-day call began at the poll's timestamp.            *)
(***************************************************************************)
AllKinds == MeanKinds \cup DirectKinds

UtcMidnight(t) == UtcDay(t) * TicksPerDay

TenValuesTagged(batch, start) ==
    /\ Len(batch) = 10
    /\ {batch[i].kind : i \in 1..10} = AllKinds
    /\ \A i \in 1..10 : batch[i].ts = UtcMidnight(start)

C21_TenValuesPerReport ==
    last.done =>
        /\ Len(last.sink) = 10 * Cardinality(StepsAt("report"))
        /\ Cardinality(AllKinds) = 10
        /\ last.rolled =>
               /\ Len(last.sink) >= 10
               /\ TenValuesTagged(FinalizationReport, last.loaded[TIMESTAMP])
        /\ Completed =>
               /\ Len(last.sink) = IF last.rolled THEN 20 ELSE 10
               /\ TenValuesTagged(CurrentReport, last.base[TIMESTAMP])
               /\ last.rolled => last.base[TIMESTAMP] = last.now

\* a completed new-day call whose two reports carry different tags, neither
\* of them the raw timestamp of its period
C21_Witness ==
    /\ Completed
    /\ last.rolled
    /\ Len(last.sink) = 20
    /\ FinalizationReport[1].ts # CurrentReport[1].ts
    /\ CurrentReport[1].ts # last.now
    /\ last.fileBefore.kind = "json"

(***************************************************************************)
(* C22.  A call of perform whose live-data request failed makes no         *)
(* addValue call and does not take the new-day branch (no report, no       *)
(* reset of the accumulator after the load).                               *)
(***************************************************************************)
LiveDataFailed == last.done /\ last.connected /\ last.none

C22_FailedRequestReportsNothing ==
    LiveDataFailed => (last.sink = << >> /\ ~last.rolled)

(***************************************************************************)
(* C23.  The walk of _parse_live_data ends for every packet: a packet of   *)
(* fewer than 6 bytes has an empty body and no call of _read_sensor is     *)
(* made; every call of _read_sensor that returns, on a known or an unknown *)
(* tag, returns a cursor at least 2 past the one it was given; the loop    *)
(* goes on only while the cursor is before the end of the body and ends    *)
(* with the first cursor at or past it; and every walk under way comes to  *)
(* its end.                                                                *)
(***************************************************************************)
WalkEnded == walk.phase \in {"done", "raised"}

CursorWithinLoop ==
    /\ walk.phase = "walking" => walk.index < Len(walk.data)
    /\ walk.phase = "done" =>
           /\ walk.index >= Len(walk.data)
           /\ \A i \in 1..Len(walk.moves) : walk.moves[i].call.index < Len(walk.data)
    /\ (walk.phase # "idle" /\ ~walk.desc.whole) =>
           /\ Len(PacketBytes(walk.desc)) <= HeaderSize
           /\ walk.data = << >>
           /\ walk.phase = "done"
           /\ walk.moves = << >>

CursorAdvances ==
    (walk.phase = "walking" /\ walk'.phase # "raised") =>
        /\ walk'.index >= walk.index + 2
        /\ walk'.index <= Len(walk.data) \/ walk'.phase = "done"

C23_WalkTerminates ==
    /\ []CursorWithinLoop
    /\ [][CursorAdvances]_vars
    /\ (walk.phase = "walking") ~> WalkEnded

\* a walk that ended after a call on an unknown tag and one on a known tag
C23_Witness ==
    /\ walk.phase = "done"
    /\ Len(walk.moves) = 2
    /\ walk.moves[1].call.tag \notin KnownTags
    /\ walk.moves[2].call.tag \in ValueTags
    /\ walk.index >= Len(walk.data)
    /\ walk.moves[2].next = walk.moves[1].next + 1 + walk.moves[2].call.size

=============================================================================
